---- MODULE Spec2Model ----
(***************************************************************************)
(* Model of aperture_photometry_pipeline.ipynb: the per-frame loop that    *)
(* tracks objects by an intensity-weighted centroid, sums the flux in a    *)
(* circular aperture, re-acquires on a negative sum from the next list of  *)
(* initial coordinates, calibrates the magnitude and stacks the rows.      *)
(*                                                                         *)
(* Conventions.  A coordinate is <<x, y>> as in the coordinate file; a     *)
(* frame is indexed data[y][x] with 0-based rows and columns, as numpy     *)
(* does.  A centroid is the pair of rationals xn/d, yn/d with d > 0: the   *)
(* code holds it as floats, and every integer the code derives from it     *)
(* (truncation, the sign of a sum) is the same for the rational because    *)
(* the values here are small integers.  `offset` and `radius` are the      *)
(* integer defaults of the notebook, scaled down to keep frames small.     *)
(***************************************************************************)
EXTENDS Integers, Sequences, FiniteSets

\* ---------------------------------------------------------------- bounds
NumObjects == 2     \* objects named in the coordinate file
NumRounds == 2      \* coordinates listed per object (hypothesis rounds)
MaxFrames == 2      \* .fits files in the directory, at most
MaxLines == 4       \* lines of the coordinate file, at most
Offset == 1         \* `offset`, the search half-width (the notebook's default is 10)
Radius == 1         \* `radius` of the aperture (the notebook's default is 5)

Objects == 1..NumObjects
Rounds == 0..(NumRounds - 1)
Height == 2 * Offset + 3
Width == 2 * Offset + 3
Rows == 0..(Height - 1)
Cols == 0..(Width - 1)
Mid == Offset + 1

\* ---------------------------------------------------------------- helpers
RECURSIVE SumFn(_, _, _)
\* sum of f[k] for k in a..b-1
SumFn(f, a, b) == IF a >= b THEN 0 ELSE f[a] + SumFn(f, a + 1, b)

\* Python's int() of a quotient n/d, d > 0: truncation toward zero
Trunc(n, d) == IF n >= 0 THEN n \div d ELSE -((-n) \div d)

\* numpy's normalisation of one bound of a slice over an axis of length len
SliceBound(k, len) ==
    IF k < 0 THEN (IF k + len < 0 THEN 0 ELSE k + len)
    ELSE IF k > len THEN len ELSE k

\* ---------------------------------------------------------------- frames
\* A scene is the content of one .fits file: a flat sky, pixels brighter
\* than the sky by `flux` and pixels darker than the sky by `depth`.
Scene(bright, flux, dark, depth) ==
    [bright |-> bright, flux |-> flux, dark |-> dark, depth |-> depth]

Scenes ==
    { Scene({<<Mid, Mid>>}, 5, {}, 0),
      Scene({<<Mid - 1, Mid - 1>>}, 5, {}, 0),
      Scene({<<Mid - 1, Mid - 1>>}, 5, {<<Mid + 1, Mid + 1>>}, 1),
      Scene({<<Mid, Mid>>}, 1, {<<Mid + 1, Mid>>}, 1),
      Scene({}, 0, {<<Mid, Mid>>}, 1),
      Scene({<<Mid, Mid>>}, 5, {<<Mid - 1, Mid>>}, 4),
      Scene({}, 0, {}, 0) }

\* hdulist[0].data of a scene
RawFrame(s) ==
    [y \in Rows |-> [x \in Cols |->
        10 + (IF <<x, y>> \in s.bright THEN s.flux ELSE 0)
           - (IF <<x, y>> \in s.dark THEN s.depth ELSE 0)]]

\* np.median of a frame with an odd number of pixels: the middle value
Median(raw) ==
    LET cells == Rows \X Cols
        half == (Height * Width - 1) \div 2
        vals == {raw[c[1]][c[2]] : c \in cells}
    IN  CHOOSE v \in vals :
            /\ Cardinality({c \in cells : raw[c[1]][c[2]] < v}) <= half
            /\ Cardinality({c \in cells : raw[c[1]][c[2]] > v}) <= half

\* data = data_wsky - skybkg
Subtract(raw, sky) == [y \in Rows |-> [x \in Cols |-> raw[y][x] - sky]]

\* ---------------------------------------------------------------- tracker
\* the sums centroid() accumulates, from the sums and moments of the rows
Moments(rows, rowsum, rowmom) ==
    [x_sum |-> SumFn(rowmom, 0, rows),
     y_sum |-> SumFn([i \in 0..(rows - 1) |-> rowsum[i] * i], 0, rows),
     total |-> SumFn(rowsum, 0, rows)]

\* centroid(arr): x_sum, y_sum and np.sum(arr); the caller divides.  arr is
\* [rows, cols, at] with at[i][j] the cell at local row i, column j.
centroid(arr) ==
    Moments(arr.rows,
            [i \in 0..(arr.rows - 1) |-> SumFn(arr.at[i], 0, arr.cols)],
            [i \in 0..(arr.rows - 1) |->
                SumFn([j \in 0..(arr.cols - 1) |-> arr.at[i][j] * j], 0, arr.cols)])

\* Clamp with one chain per axis: the y rules, then the x rules
ClampEachAxis(p) ==
    LET y == IF p[2] - Offset < 0 THEN Offset
             ELSE IF p[2] + Offset >= Height THEN Height - Offset - 1
             ELSE p[2]
        x == IF p[1] - Offset < 0 THEN 0
             ELSE IF p[1] + Offset >= Width THEN Width - Offset - 1
             ELSE p[1]
    IN  <<x, y>>

\* the if / elif chain of find_objects_stats: only the first rule that matches
Clamp(p) ==
    IF p[2] - Offset < 0 THEN <<p[1], Offset>>
    ELSE IF p[2] + Offset >= Height THEN <<p[1], Height - Offset - 1>>
    ELSE IF p[1] - Offset < 0 THEN <<0, p[2]>>
    ELSE IF p[1] + Offset >= Width THEN <<Width - Offset - 1, p[2]>>
    ELSE p

\* the rows r0..r1-1 and columns c0..c1-1 of the frame as a window
Region(data, r0, r1, c0, c1) ==
    [rows |-> IF r1 > r0 THEN r1 - r0 ELSE 0,
     cols |-> IF c1 > c0 THEN c1 - c0 ELSE 0,
     at |-> [i \in 0..(r1 - r0 - 1) |-> [j \in 0..(c1 - c0 - 1) |-> data[r0 + i][c0 + j]]]]

\* data[y - offset : y + offset, x - offset : x + offset], with numpy's
\* treatment of negative and too large slice bounds
DataRegion(data, p) ==
    Region(data,
           SliceBound(p[2] - Offset, Height), SliceBound(p[2] + Offset, Height),
           SliceBound(p[1] - Offset, Width), SliceBound(p[1] + Offset, Width))

\* peak = data[int(cen[1])][int(cen[0])] for the centroid (xn/d, yn/d): an
\* index outside [-len, len) raises IndexError, a negative one wraps
PeakAt(data, xn, yn, d, ix, iy) ==
    IF iy < -Height \/ iy >= Height \/ ix < -Width \/ ix >= Width
    THEN [ok |-> FALSE, error |-> "IndexError"]
    ELSE [ok |-> TRUE, xn |-> xn, yn |-> yn, d |-> d,
          peak |-> data[iy % Height][ix % Width]]

\* cen = (xsub + x - offset, ysub + y - offset) as xn/d, yn/d with d > 0
Reindex(data, xn, yn, d) ==
    IF d > 0 THEN PeakAt(data, xn, yn, d, Trunc(xn, d), Trunc(yn, d))
    ELSE PeakAt(data, -xn, -yn, -d, Trunc(-xn, -d), Trunc(-yn, -d))

\* Locate without the re-indexing: the centroid would be left in the
\* coordinates of the window
LocateLocal(data, p, c) ==
    IF c.total = 0 THEN [ok |-> FALSE, error |-> "ZeroWindow"]
    ELSE Reindex(data, c.x_sum, c.y_sum, c.total)

\* What the sums of the window give for the clamped position p.  A window
\* of sum zero makes the quotients nan or inf, and int() of them raises.
Locate(data, p, c) ==
    IF c.total = 0 THEN [ok |-> FALSE, error |-> "ZeroWindow"]
    ELSE Reindex(data, c.x_sum + (p[1] - Offset) * c.total,
                 c.y_sum + (p[2] - Offset) * c.total, c.total)

\* one turn of the loop of find_objects_stats, for the clamped position p
TrackOne(data, p) == Locate(data, p, centroid(DataRegion(data, p)))

\* the sum of the pixels in the set `inside` of <<row, column>> pairs
SumInside(data, inside) ==
    SumFn([y \in Rows |->
              SumFn([x \in Cols |-> IF <<y, x>> \in inside THEN data[y][x] ELSE 0], 0, Width)],
          0, Height)

\* an aperture sum is [nan, v]: nan, or the number v
ApertureOver(data, inside) ==
    IF inside = {} THEN [nan |-> TRUE, v |-> 0]
    ELSE [nan |-> FALSE, v |-> SumInside(data, inside)]

\* aperture_photometry(data, CircularAperture(centroid, r=radius)): the sum
\* of the pixels within the circle, nan when the circle holds no pixel of
\* the frame.  A pixel counts when its centre is within the radius.
ApertureSum(data, xn, yn, d) ==
    ApertureOver(data,
        {c \in Rows \X Cols :
            (c[2] * d - xn) * (c[2] * d - xn) + (c[1] * d - yn) * (c[1] * d - yn)
                <= Radius * Radius * d * d})

\* the row of phot_table for a tracked object
PhotRow(data, t) ==
    [xcenter |-> <<t.xn, t.d>>, ycenter |-> <<t.yn, t.d>>,
     aperture_sum |-> ApertureSum(data, t.xn, t.yn, t.d)]

\* the first object whose turn raised
FirstBad(t) == CHOOSE i \in Objects : ~t[i].ok /\ \A k \in Objects : ~t[k].ok => i <= k

\* The result of find_objects_stats from the clamped positions q and the
\* turns t: the view as the clamps left it, with the table and the peaks,
\* or with the exception that ended the loop.
Stats(data, pos, q, t) ==
    IF \E i \in Objects : ~t[i].ok
    THEN [ok |-> FALSE, error |-> t[FirstBad(t)].error,
          positions |-> [i \in Objects |-> IF i <= FirstBad(t) THEN q[i] ELSE pos[i]]]
    ELSE [ok |-> TRUE, positions |-> q,
          phot_table |-> [i \in Objects |-> PhotRow(data, t[i])],
          peaks |-> [i \in Objects |-> t[i].peak]]

\* the turns of the loop for the clamped positions q
Turns(data, pos, q) == Stats(data, pos, q, [i \in Objects |-> TrackOne(data, q[i])])

\* find_objects_stats(data, positions, file); pos is the positions view
find_objects_stats(data, pos) == Turns(data, pos, [i \in Objects |-> Clamp(pos[i])])

\* i < 0 for an aperture sum: False for nan
IsNegative(s) == ~s.nan /\ s.v < 0

\* AnyNegative with <= for <: a sum of zero would count as a failure
AnyNonPositive(table) ==
    \E i \in Objects : ~table[i].aperture_sum.nan /\ table[i].aperture_sum.v <= 0

\* any(i < 0 for i in phot_table["aperture_sum"])
AnyNegative(table) == \E i \in Objects : IsNegative(table[i].aperture_sum)

\* Magnitude of the absolute value of the sum: a negative sum would get a
\* finite magnitude
MagnitudeOfAbs(s) ==
    IF s.nan THEN [kind |-> "nan", flux |-> 0]
    ELSE IF s.v = 0 THEN [kind |-> "inf", flux |-> 0]
    ELSE [kind |-> "finite", flux |-> IF s.v < 0 THEN -s.v ELSE s.v]

\* -2.5*(np.log10(aperture_sum / fluxzero)) + magzero: numpy gives nan for a
\* negative sum or nan and +inf for zero, with a warning and no exception;
\* a finite magnitude is kept as the flux it is the logarithm of
Magnitude(s) ==
    IF s.nan \/ s.v < 0 THEN [kind |-> "nan", flux |-> 0]
    ELSE IF s.v = 0 THEN [kind |-> "inf", flux |-> 0]
    ELSE [kind |-> "finite", flux |-> s.v]

\* ---------------------------------------------------------------- state
VARIABLES
    pc,                        \* where the script is
    file,                      \* number of files the loop has opened
    data,                      \* the background-subtracted frame
    skybkg,                    \* its median
    starting_positions,        \* [object][round] -> <<x, y>>, written through the view
    positions,                 \* the round (column) that `positions` is a view of
    starting_positions_index,  \* the hypothesis pointer
    phot_table,                \* the table of the current frame
    peaks,                     \* the peaks of the current frame
    aperture_table,            \* the output table, a sequence of rows
    logfile,                   \* number of times logfile.ecsv was written
    error,                     \* the exception that ended the run, "" if none
    config,                    \* history: starting_positions as parsed
    first_pass,                \* history: the table of the first pass of this frame
    passes,                    \* history: calls of find_objects_stats in this frame
    index_at_open,             \* history: the pointer when this frame was opened
    searched,                  \* history: the elements of the view the last pass was given
    retries,                   \* history: the rounds second passes were run from
    coord_file,                \* the lines of the coordinate file
    line_no,                   \* number of lines the parsing loop has read
    names                      \* the names of the objects, in the order found

vars == <<pc, file, data, skybkg, starting_positions, positions,
          starting_positions_index, phot_table, peaks, aperture_table, logfile,
          error, config, first_pass, passes, index_at_open, searched, retries,
          coord_file, line_no, names>>

\* what the parsing of the coordinate file works on
parse_state == <<coord_file, line_no, names>>

\* the elements of the view: starting_positions[:, positions]
View(sp, col) == [i \in Objects |-> sp[i][col]]

\* WriteView on a copy shared by the rounds: every round would be set to pos
WriteViewAll(sp, col, pos) == [i \in Objects |-> [r \in Rounds |-> pos[i]]]

\* starting_positions after the view's elements were set to pos
WriteView(sp, col, pos) ==
    [i \in Objects |-> [r \in Rounds |-> IF r = col THEN pos[i] ELSE sp[i][r]]]

\* coordinates of the coordinate file away from the edges: mid-frame and one
\* pixel down the diagonal
InnerCoords == { <<Mid, Mid>>, <<Mid + 1, Mid + 1>> }

\* coordinates of the coordinate file: the inner ones, and on the top edge,
\* the left edge, the right edge, the top right and the bottom right corner
Coords ==
    InnerCoords \cup { <<Mid, 0>>, <<0, Mid>>, <<Width - 1, Mid>>, <<Width - 1, 0>>,
                       <<Width - 1, Height - 1>> }

\* one round of the coordinate file: every object on the same coordinate, or
\* the first object on one and the others on another
Layouts ==
    { [i \in Objects |-> IF i = 1 THEN a ELSE b] : a \in InnerCoords, b \in InnerCoords }
    \cup { [i \in Objects |-> a] : a \in Coords }

\* a round with a coordinate on an edge
OnEdge(l) == l[1] \notin InnerCoords

\* starting_positions as parsed: one layout per round, at most one of them
\* on an edge
StartConfigs ==
    { [i \in Objects |-> [r \in Rounds |-> l[r][i]]] :
        l \in { m \in [Rounds -> Layouts] :
                  Cardinality({r \in Rounds : OnEdge(m[r])}) <= 1 } }

NoFrame == [y \in Rows |-> [x \in Cols |-> 0]]

\* ------------------------------------------------- the coordinate file
\* A line "name:(x,y)" is <<name, x, y>> with the two decimal numbers in
\* tenths; <<>> is a line without a colon, as the one text.split gives after
\* a final newline.
TextCoords == { <<10 * Mid, 10 * Mid>>, <<10 * Mid + 15, 0 - 5>> }

FileLines == { <<n, c[1], c[2]>> : n \in Objects, c \in TextCoords } \cup { <<>> }

\* text.split: a file has one line at least
Files == UNION { [1..n -> FileLines] : n \in 1..MaxLines }

\* a coordinate file that parses to the configuration cfg, round by round
FileOf(cfg) ==
    [k \in 1..(NumObjects * NumRounds) |->
        <<((k - 1) % NumObjects) + 1,
          10 * cfg[((k - 1) % NumObjects) + 1][(k - 1) \div NumObjects][1],
          10 * cfg[((k - 1) % NumObjects) + 1][(k - 1) \div NumObjects][2]>>]

\* names.index(name)
IndexOf(seq, name) ==
    CHOOSE k \in 1..Len(seq) : seq[k] = name /\ \A j \in 1..(k - 1) : seq[j] # name

\* ReadLine putting the coordinate of a known name in front of its list
ReadLinePrepend ==
    /\ pc = "parse"
    /\ line_no < Len(coord_file)
    /\ line_no' = line_no + 1
    /\ IF Len(coord_file[line_no + 1]) = 0
       THEN /\ pc' = "crashed"
            /\ error' = "IndexError"
            /\ UNCHANGED <<names, starting_positions>>
       ELSE /\ IF \E k \in 1..Len(names) : names[k] = coord_file[line_no + 1][1]
               THEN /\ starting_positions' =
                          [starting_positions EXCEPT
                              ![IndexOf(names, coord_file[line_no + 1][1])] =
                                  << <<Trunc(coord_file[line_no + 1][2], 10),
                                       Trunc(coord_file[line_no + 1][3], 10)>> >> \o @]
                    /\ names' = names
               ELSE /\ names' = Append(names, coord_file[line_no + 1][1])
                    /\ starting_positions' =
                          Append(starting_positions,
                                 << <<Trunc(coord_file[line_no + 1][2], 10),
                                      Trunc(coord_file[line_no + 1][3], 10)>> >>)
            /\ UNCHANGED <<pc, error>>
    /\ UNCHANGED <<file, data, skybkg, positions, starting_positions_index,
                   phot_table, peaks, aperture_table, logfile, config, first_pass,
                   passes, index_at_open, searched, retries, coord_file>>

\* for line in lines: one turn of the loop over the lines of the file.  A line
\* without a colon raises; a name seen before gets the coordinate appended to
\* its list, a new name is appended with a list of this coordinate.
ReadLine ==
    /\ pc = "parse"
    /\ line_no < Len(coord_file)
    /\ line_no' = line_no + 1
    /\ IF Len(coord_file[line_no + 1]) = 0
       THEN /\ pc' = "crashed"
            /\ error' = "IndexError"
            /\ UNCHANGED <<names, starting_positions>>
       ELSE /\ IF \E k \in 1..Len(names) : names[k] = coord_file[line_no + 1][1]
               THEN /\ starting_positions' =
                          [starting_positions EXCEPT
                              ![IndexOf(names, coord_file[line_no + 1][1])] =
                                  Append(@, <<Trunc(coord_file[line_no + 1][2], 10),
                                              Trunc(coord_file[line_no + 1][3], 10)>>)]
                    /\ names' = names
               ELSE /\ names' = Append(names, coord_file[line_no + 1][1])
                    /\ starting_positions' =
                          Append(starting_positions,
                                 << <<Trunc(coord_file[line_no + 1][2], 10),
                                      Trunc(coord_file[line_no + 1][3], 10)>> >>)
            /\ UNCHANGED <<pc, error>>
    /\ UNCHANGED <<file, data, skybkg, positions, starting_positions_index,
                   phot_table, peaks, aperture_table, logfile, config, first_pass,
                   passes, index_at_open, searched, retries, coord_file>>

\* the lists of the objects all have the length of the first one
Rectangular(lists) ==
    \A i \in 1..Len(lists) : Len(lists[i]) = Len(lists[1])

\* np.array(starting_positions): [object][round] -> <<x, y>>, rounds from 0
AsArray(lists) ==
    [i \in 1..Len(lists) |-> [r \in 0..(Len(lists[1]) - 1) |-> lists[i][r + 1]]]

\* the lines are read: starting_positions = np.array(starting_positions) and
\* positions = starting_positions[:,0]; lists of unequal length give no
\* array of coordinates and the column cannot be taken
FinishParse ==
    /\ pc = "parse"
    /\ line_no = Len(coord_file)
    /\ IF Rectangular(starting_positions)
       THEN /\ starting_positions' = AsArray(starting_positions)
            /\ config' = starting_positions'
            /\ searched' = [i \in 1..Len(names) |-> starting_positions'[i][0]]
            /\ pc' = "loop"
            /\ error' = error
       ELSE /\ pc' = "crashed"
            /\ error' = "RaggedArray"
            /\ UNCHANGED <<starting_positions, config, searched>>
    /\ UNCHANGED <<file, data, skybkg, positions, starting_positions_index,
                   phot_table, peaks, aperture_table, logfile, first_pass,
                   passes, index_at_open, retries, coord_file, line_no, names>>

\* the script before the coordinate file is read
ParseInit ==
    /\ pc = "parse"
    /\ coord_file \in Files
    /\ line_no = 0
    /\ names = <<>>
    /\ starting_positions = <<>>
    /\ config = <<>>
    /\ searched = <<>>
    /\ file = 0
    /\ data = NoFrame
    /\ skybkg = 0
    /\ positions = 0
    /\ starting_positions_index = 0
    /\ phot_table = <<>>
    /\ peaks = <<>>
    /\ aperture_table = <<>>
    /\ logfile = 0
    /\ error = ""
    /\ first_pass = <<>>
    /\ passes = 0
    /\ index_at_open = 0
    /\ retries = <<>>

ParseNext ==
    \/ ReadLine
    \/ FinishParse

\* the parsing of the coordinate file, up to the start of the loop
ParseSpec == ParseInit /\ [][ParseNext]_vars

\* --------------------------------------------------------- the main loop
\* the script at the start of the loop, the coordinate file parsed
Init ==
    /\ pc = "loop"
    /\ file = 0
    /\ data = NoFrame
    /\ skybkg = 0
    /\ starting_positions \in StartConfigs
    /\ config = starting_positions
    /\ positions = 0
    /\ starting_positions_index = 0
    /\ phot_table = <<>>
    /\ peaks = <<>>
    /\ aperture_table = <<>>
    /\ logfile = 0
    /\ error = ""
    /\ first_pass = <<>>
    /\ passes = 0
    /\ index_at_open = 0
    /\ searched = View(starting_positions, 0)
    /\ retries = <<>>
    /\ coord_file = FileOf(starting_positions)
    /\ line_no = Len(coord_file)
    /\ names = [i \in Objects |-> i]

\* OpenFrame starting every frame from the coordinates of the coordinate
\* file: the view would be set back to the round as parsed
OpenFrameFromRound ==
    /\ pc = "loop"
    /\ file < MaxFrames
    /\ \E s \in Scenes :
          LET raw == RawFrame(s) IN
          /\ skybkg' = Median(raw)
          /\ data' = Subtract(raw, Median(raw))
    /\ file' = file + 1
    /\ pc' = "track"
    /\ passes' = 0
    /\ first_pass' = <<>>
    /\ index_at_open' = starting_positions_index
    /\ starting_positions' = WriteView(starting_positions, positions, View(config, positions))
    /\ UNCHANGED <<positions, starting_positions_index,
                   phot_table, peaks, aperture_table, logfile, error, config,
                   searched, retries>>
    /\ UNCHANGED parse_state

\* for file in fits_filenames: another file is listed; open it and subtract
\* the median
OpenFrame ==
    /\ pc = "loop"
    /\ file < MaxFrames
    /\ \E s \in Scenes :
          LET raw == RawFrame(s) IN
          /\ skybkg' = Median(raw)
          /\ data' = Subtract(raw, Median(raw))
    /\ file' = file + 1
    /\ pc' = "track"
    /\ passes' = 0
    /\ first_pass' = <<>>
    /\ index_at_open' = starting_positions_index
    /\ UNCHANGED <<starting_positions, positions, starting_positions_index,
                   phot_table, peaks, aperture_table, logfile, error, config,
                   searched, retries>>
    /\ UNCHANGED parse_state

\* Pass retrying object by object: on the second pass an object whose first
\* sum was not negative would keep its first row
PassKeepGood(col, r, next) ==
    /\ starting_positions' = WriteView(starting_positions, col, r.positions)
    /\ passes' = passes + 1
    /\ searched' = View(starting_positions, col)
    /\ IF r.ok
       THEN /\ phot_table' = [i \in Objects |->
                    IF pc = "check" /\ ~IsNegative(phot_table[i].aperture_sum)
                    THEN phot_table[i] ELSE r.phot_table[i]]
            /\ peaks' = r.peaks
            /\ pc' = next
            /\ error' = error
       ELSE /\ pc' = "crashed"
            /\ error' = r.error
            /\ UNCHANGED <<phot_table, peaks>>

\* Pass discarding a second pass that is negative again: the first table
\* would be kept
PassDiscardNegativeRetry(col, r, next) ==
    /\ starting_positions' = WriteView(starting_positions, col, r.positions)
    /\ passes' = passes + 1
    /\ searched' = View(starting_positions, col)
    /\ IF r.ok
       THEN /\ IF pc = "check" /\ AnyNegative(r.phot_table)
               THEN UNCHANGED <<phot_table, peaks>>
               ELSE phot_table' = r.phot_table /\ peaks' = r.peaks
            /\ pc' = next
            /\ error' = error
       ELSE /\ pc' = "crashed"
            /\ error' = r.error
            /\ UNCHANGED <<phot_table, peaks>>

\* the effect of a call of find_objects_stats that returned r on the view
\* of round col: the clamps are written through, and an exception ends the run
Pass(col, r, next) ==
    /\ starting_positions' = WriteView(starting_positions, col, r.positions)
    /\ passes' = passes + 1
    /\ searched' = View(starting_positions, col)
    /\ IF r.ok
       THEN /\ phot_table' = r.phot_table
            /\ peaks' = r.peaks
            /\ pc' = next
            /\ error' = error
       ELSE /\ pc' = "crashed"
            /\ error' = r.error
            /\ UNCHANGED <<phot_table, peaks>>

\* phot_table, peaks = find_objects_stats(data, positions, file)
Track ==
    /\ pc = "track"
    /\ Pass(positions, find_objects_stats(data, View(starting_positions, positions)), "check")
    /\ first_pass' = IF pc' = "check" THEN phot_table' ELSE first_pass
    /\ UNCHANGED <<file, data, skybkg, positions, starting_positions_index,
                   aperture_table, logfile, config, index_at_open, retries>>
    /\ UNCHANGED parse_state

\* Advance cycling through the rounds: the pointer would fall back to 0
AdvanceWrap(index) == (index + 1) % NumRounds

\* starting_positions_index += 1
Advance(index) == index + 1

\* if starting_positions_index < len(starting_positions[0]): the round the
\* view is rebound to, NoRound when none is left
NoRound == 0 - 1

\* RetryRound falling back on the last round when the rounds are used up
RetryRoundLast(index) == IF index < NumRounds THEN index ELSE NumRounds - 1

\* RetryRound starting over at round 0 when the rounds are used up
RetryRoundWrap(index) == index % NumRounds

RetryRound(index) == IF index < NumRounds THEN index ELSE NoRound

\* if any(i < 0 ...): advance the pointer and, when a round is left, rebind
\* the view to it and run find_objects_stats again
TrackLossCheck ==
    /\ pc = "check"
    /\ IF AnyNegative(phot_table)
       THEN /\ starting_positions_index' = Advance(starting_positions_index)
            /\ IF RetryRound(starting_positions_index') # NoRound
               THEN /\ positions' = RetryRound(starting_positions_index')
                    /\ retries' = Append(retries, positions')
                    /\ Pass(positions',
                            find_objects_stats(data, View(starting_positions, positions')),
                            "calibrate")
               ELSE /\ pc' = "calibrate"
                    /\ UNCHANGED <<positions, starting_positions, passes, phot_table,
                                   peaks, error, searched, retries>>
       ELSE /\ pc' = "calibrate"
            /\ UNCHANGED <<starting_positions_index, positions, starting_positions,
                           passes, phot_table, peaks, error, searched, retries>>
    /\ UNCHANGED <<file, data, skybkg, aperture_table, logfile, config,
                   first_pass, index_at_open>>
    /\ UNCHANGED parse_state

\* phot_table["aperture_mag"] = mag
Calibrate ==
    /\ pc = "calibrate"
    /\ phot_table' = [i \in Objects |->
          [xcenter |-> phot_table[i].xcenter, ycenter |-> phot_table[i].ycenter,
           aperture_sum |-> phot_table[i].aperture_sum,
           aperture_mag |-> Magnitude(phot_table[i].aperture_sum)]]
    /\ pc' = "record"
    /\ UNCHANGED <<file, data, skybkg, starting_positions, positions,
                   starting_positions_index, peaks, aperture_table, logfile, error,
                   config, first_pass, passes, index_at_open, searched, retries>>
    /\ UNCHANGED parse_state

\* FrameRows without the rows of a negative sum
FrameRowsDropNegative(table, pk, sky, f) ==
    LET keep == {i \in Objects : ~IsNegative(table[i].aperture_sum)}
        nth(k) == CHOOSE i \in keep : Cardinality({j \in keep : j < i}) = k - 1
    IN  [k \in 1..Cardinality(keep) |->
            [xcenter |-> table[nth(k)].xcenter, ycenter |-> table[nth(k)].ycenter,
             aperture_sum |-> table[nth(k)].aperture_sum,
             aperture_mag |-> table[nth(k)].aperture_mag,
             peak |-> pk[nth(k)], name |-> nth(k), R |-> Radius, sky |-> sky,
             filename |-> f]]

\* the columns peak, name, R, sky, filename of the frame's rows
FrameRows(table, pk, sky, f) ==
    [i \in Objects |->
        [xcenter |-> table[i].xcenter, ycenter |-> table[i].ycenter,
         aperture_sum |-> table[i].aperture_sum, aperture_mag |-> table[i].aperture_mag,
         peak |-> pk[i], name |-> i, R |-> Radius, sky |-> sky, filename |-> f]]

\* Record with the arguments of vstack swapped
RecordPrepend ==
    /\ pc = "record"
    /\ aperture_table' = FrameRows(phot_table, peaks, skybkg, file) \o aperture_table
    /\ pc' = "update"
    /\ UNCHANGED <<file, data, skybkg, starting_positions, positions,
                   starting_positions_index, phot_table, peaks, logfile, error, config,
                   first_pass, passes, index_at_open, searched, retries>>
    /\ UNCHANGED parse_state

\* aperture_table = vstack([aperture_table, phot_table])
Record ==
    /\ pc = "record"
    /\ aperture_table' = aperture_table \o FrameRows(phot_table, peaks, skybkg, file)
    /\ pc' = "update"
    /\ UNCHANGED <<file, data, skybkg, starting_positions, positions,
                   starting_positions_index, phot_table, peaks, logfile, error, config,
                   first_pass, passes, index_at_open, searched, retries>>
    /\ UNCHANGED parse_state

\* UpdatePositions under a condition: the view would be left as it is after
\* a frame recorded with a negative sum
UpdatePositionsOnSuccess ==
    /\ pc = "update"
    /\ starting_positions' =
          IF AnyNegative(phot_table) THEN starting_positions
          ELSE WriteView(starting_positions, positions,
                  [i \in Objects |->
                      <<Trunc(phot_table[i].xcenter[1], phot_table[i].xcenter[2]),
                        Trunc(phot_table[i].ycenter[1], phot_table[i].ycenter[2])>>])
    /\ pc' = "loop"
    /\ UNCHANGED <<file, data, skybkg, positions, starting_positions_index,
                   phot_table, peaks, aperture_table, logfile, error, config,
                   first_pass, passes, index_at_open, searched, retries>>
    /\ UNCHANGED parse_state

\* positions[i] = [int(xcenter), int(ycenter)], written through the view
UpdatePositions ==
    /\ pc = "update"
    /\ starting_positions' = WriteView(starting_positions, positions,
          [i \in Objects |->
              <<Trunc(phot_table[i].xcenter[1], phot_table[i].xcenter[2]),
                Trunc(phot_table[i].ycenter[1], phot_table[i].ycenter[2])>>])
    /\ pc' = "loop"
    /\ UNCHANGED <<file, data, skybkg, positions, starting_positions_index,
                   phot_table, peaks, aperture_table, logfile, error, config,
                   first_pass, passes, index_at_open, searched, retries>>
    /\ UNCHANGED parse_state

\* WriteTable in a finally clause: the table would also be written when
\* the loop was left by an exception
WriteTableOnAbort ==
    /\ pc \in {"loop", "crashed"}
    /\ logfile' = logfile + 1
    /\ pc' = "done"
    /\ UNCHANGED <<file, data, skybkg, starting_positions, positions,
                   starting_positions_index, phot_table, peaks, aperture_table, error,
                   config, first_pass, passes, index_at_open, searched, retries>>
    /\ UNCHANGED parse_state

\* fits_filenames is exhausted: aperture_table.write(...), after the loop
WriteTable ==
    /\ pc = "loop"
    /\ logfile' = logfile + 1
    /\ pc' = "done"
    /\ UNCHANGED <<file, data, skybkg, starting_positions, positions,
                   starting_positions_index, phot_table, peaks, aperture_table, error,
                   config, first_pass, passes, index_at_open, searched, retries>>
    /\ UNCHANGED parse_state

Next ==
    \/ OpenFrame
    \/ Track
    \/ TrackLossCheck
    \/ Calibrate
    \/ Record
    \/ UpdatePositions
    \/ WriteTable

Spec == Init /\ [][Next]_vars

\* ---------------------------------------------------------------- claims
\* the row of object i in the rows of the f-th recorded frame
RowOf(f, i) == aperture_table[(f - 1) * NumObjects + i]

\* the first pass of the current frame gave some object a negative sum
FirstPassFailed ==
    \E i \in Objects : ~first_pass[i].aperture_sum.nan /\ first_pass[i].aperture_sum.v < 0

\* the rows of the current frame have been stacked
Recorded == pc \in {"update", "loop", "done"} /\ file >= 1

\* the table a pass gives for this frame from the round the pointer is at,
\* with the coordinates as the coordinate file gave them
FromConfigured ==
    find_objects_stats(data, View(config, starting_positions_index)).phot_table

\* the magnitude of a row is nan for a negative or nan sum, inf for zero
\* and the finite magnitude of the sum otherwise
MagnitudeFits(row) ==
    IF row.aperture_sum.nan \/ row.aperture_sum.v < 0 THEN row.aperture_mag.kind = "nan"
    ELSE IF row.aperture_sum.v = 0 THEN row.aperture_mag.kind = "inf"
    ELSE row.aperture_mag = [kind |-> "finite", flux |-> row.aperture_sum.v]

\* C1: once the loop has recorded k frames the table holds k * N rows: the
\* frames opened and recorded so far each gave one row per object.
C1_RowsPerFrame ==
    Len(aperture_table) = NumObjects * (IF Recorded THEN file ELSE IF file = 0 THEN 0 ELSE file - 1)

\* two frames are recorded, the second after a retry that ended negative
C1_Witness ==
    /\ pc = "update" /\ file = 2 /\ passes = 2
    /\ \E i \in Objects : RowOf(2, i).aperture_sum.v < 0
    /\ Len(aperture_table) = 2 * NumObjects

\* C2: when the run has stopped, every frame the loop opened has its rows
\* in the table: the run never ends before the last frame is recorded.
C2_EveryFrameRecorded ==
    pc \in {"crashed", "done"} => Len(aperture_table) = NumObjects * file

\* C3: within a frame the pointer is its value at the opening of the frame,
\* plus one exactly when some first-pass sum is below zero (zero and nan do
\* not count); it does not move before the check.
C3_AdvanceIffNegative ==
    /\ pc \in {"track", "check"} => starting_positions_index = index_at_open
    /\ pc \in {"calibrate", "record", "update"} =>
          starting_positions_index = index_at_open + (IF FirstPassFailed THEN 1 ELSE 0)

\* a frame with a zero sum left the pointer at 0 and the next frame, with a
\* negative sum, advanced it to 1
C3_Witness ==
    /\ pc = "calibrate" /\ file = 2
    /\ \E i \in Objects : ~RowOf(1, i).aperture_sum.nan /\ RowOf(1, i).aperture_sum.v = 0
    /\ index_at_open = 0
    /\ FirstPassFailed
    /\ starting_positions_index = 1

\* C4: when the first pass failed and the advanced pointer is below the
\* number of rounds, find_objects_stats ran a second time on the view of the
\* new round, and every row of the frame is the row that pass gives from
\* the configured coordinate of the object at the new index.
C4_RetryRowsFromNewRound ==
    (pc = "update" /\ FirstPassFailed /\ index_at_open + 1 < NumRounds) =>
        /\ passes = 2
        /\ positions = index_at_open + 1
        /\ \A i \in Objects :
              /\ RowOf(file, i).xcenter = FromConfigured[i].xcenter
              /\ RowOf(file, i).ycenter = FromConfigured[i].ycenter
              /\ RowOf(file, i).aperture_sum = FromConfigured[i].aperture_sum

\* a retried frame where an object with a non-negative first sum has a
\* different sum in its row
C4_Witness ==
    /\ pc = "update" /\ FirstPassFailed /\ passes = 2
    /\ \E i \in Objects :
          /\ ~first_pass[i].aperture_sum.nan /\ first_pass[i].aperture_sum.v >= 0
          /\ RowOf(file, i).aperture_sum # first_pass[i].aperture_sum

\* C5: a frame calls find_objects_stats at most twice and moves the pointer
\* at most once, and the rows of a retried frame are those of the second
\* pass, negative sums included.
C5_OneRetry ==
    /\ passes <= 2
    /\ starting_positions_index <= index_at_open + 1
    /\ (pc = "update" /\ passes = 2) =>
          \A i \in Objects : RowOf(file, i).aperture_sum = FromConfigured[i].aperture_sum

\* a retried frame recorded with a negative sum that the first pass did not give
C5_Witness ==
    /\ pc = "update" /\ passes = 2
    /\ starting_positions_index = index_at_open + 1
    /\ \E i \in Objects :
          /\ ~RowOf(file, i).aperture_sum.nan /\ RowOf(file, i).aperture_sum.v < 0
          /\ RowOf(file, i).aperture_sum # first_pass[i].aperture_sum

\* C6: when the first pass failed and the advanced pointer is not below the
\* number of rounds, there is no second pass and the rows of the frame are
\* those of the first pass.
C6_NoRoundLeftKeepsFirstPass ==
    (pc = "update" /\ FirstPassFailed /\ index_at_open + 1 >= NumRounds) =>
        /\ passes = 1
        /\ \A i \in Objects :
              /\ RowOf(file, i).xcenter = first_pass[i].xcenter
              /\ RowOf(file, i).ycenter = first_pass[i].ycenter
              /\ RowOf(file, i).aperture_sum = first_pass[i].aperture_sum

\* a failed frame with no round left, recorded with its negative sum
C6_Witness ==
    /\ pc = "update" /\ FirstPassFailed /\ index_at_open + 1 >= NumRounds
    /\ \E i \in Objects : RowOf(file, i).aperture_sum.v < 0

\* C7: the pointer starts at 0 and no step lowers it.
C7_PointerMonotone ==
    /\ starting_positions_index = 0
    /\ [][starting_positions_index' >= starting_positions_index]_vars

\* a frame was opened with the pointer already advanced by an earlier frame
C7_Witness == pc = "track" /\ file = 2 /\ index_at_open >= 1

\* C8: a search window of sum zero does not end the run.
C8_ZeroWindowSurvives == ~(pc = "crashed" /\ error = "ZeroWindow")

\* C9: calibration never ends the run: from the calibration to the head of
\* the loop every step goes on, the rows are stacked, and each row has the
\* magnitude of its own sum: nan or inf for a sum that is not positive.
C9_CalibrationNeverFatal ==
    [][ /\ pc = "calibrate" =>
              pc' = "record" /\ \A i \in Objects : MagnitudeFits(phot_table'[i])
        /\ pc = "record" =>
              /\ pc' = "update"
              /\ Len(aperture_table') = Len(aperture_table) + NumObjects
              /\ \A i \in Objects :
                    /\ aperture_table'[Len(aperture_table) + i].aperture_sum
                          = phot_table[i].aperture_sum
                    /\ MagnitudeFits(aperture_table'[Len(aperture_table) + i])
        /\ pc = "update" => pc' = "loop" ]_vars

\* a frame recorded with a negative sum and nan for one object and a
\* positive sum and its magnitude for another, and the next frame opened
C9_Witness ==
    /\ pc = "track" /\ file = 2
    /\ \E i, k \in Objects :
          /\ ~RowOf(1, i).aperture_sum.nan /\ RowOf(1, i).aperture_sum.v < 0
          /\ RowOf(1, i).aperture_mag.kind = "nan"
          /\ RowOf(1, k).aperture_mag.kind = "finite"

\* C10: every step leaves the table as a prefix of the new table; the rows
\* are in frame order and, within a frame, in object order, and the row
\* stacked for object i carries the centroid computed for it.
C10_AppendOnlyOrdered ==
    [][ /\ Len(aperture_table') >= Len(aperture_table)
        /\ SubSeq(aperture_table', 1, Len(aperture_table)) = aperture_table
        /\ \A k \in 1..Len(aperture_table') :
              /\ aperture_table'[k].name = ((k - 1) % NumObjects) + 1
              /\ aperture_table'[k].filename = ((k - 1) \div NumObjects) + 1
        /\ pc = "record" =>
              \A i \in Objects :
                  /\ aperture_table'[Len(aperture_table) + i].xcenter = phot_table[i].xcenter
                  /\ aperture_table'[Len(aperture_table) + i].ycenter = phot_table[i].ycenter ]_vars

\* two frames recorded, the second with different centroids for two objects
C10_Witness ==
    /\ pc = "update" /\ Len(aperture_table) = 2 * NumObjects
    /\ RowOf(2, 1).xcenter # RowOf(2, 2).xcenter

\* C11: logfile.ecsv is written at most once, only by the step after the
\* loop and with the rows of every frame opened in it; nothing is written
\* while a frame is in work, and a run ended by an exception wrote nothing.
C11_WrittenOnceAtEnd ==
    /\ logfile <= 1
    /\ logfile = 1 <=> pc = "done"
    /\ logfile = 1 => Len(aperture_table) = NumObjects * file
    /\ pc = "crashed" => logfile = 0

\* the table of two recorded frames has been written
C11_Witness == pc = "done" /\ logfile = 1 /\ file = 2 /\ Len(aperture_table) = 2 * NumObjects

\* the pixels of the frame that are not zero, as <<x, y>>
NonZero == { s \in Cols \X Rows : data[s[2]][s[1]] # 0 }

\* p is at least offset pixels from every edge of the frame
Inner(p) ==
    /\ p[1] >= Offset /\ p[1] <= Width - 1 - Offset
    /\ p[2] >= Offset /\ p[2] <= Height - 1 - Offset

\* a call of find_objects_stats has just returned or raised
AfterPass == pc \in {"check", "crashed"} \/ (pc = "calibrate" /\ passes = 2)

\* the objects the loop of the last call has clamped for certain: all of them
\* when it returned, the first one when it raised
Clamped == IF pc = "crashed" THEN {1} ELSE Objects

\* the elements of the view
Current == View(starting_positions, positions)

\* C12: a source that is the only signal of the frame, at least offset
\* pixels from every edge, and that the previous frame located offset
\* pixels or less away in x and in y, is located by the first pass: the
\* call returns and the centroid is the pixel of the source.
C12_MovedSourceRelocated ==
    (pc \in {"check", "crashed"} /\ passes = 1 /\ file >= 2) =>
        \A s \in Cols \X Rows :
            ( /\ NonZero = {s}
              /\ Inner(s)
              /\ \A i \in Objects :
                    /\ Inner(searched[i])
                    /\ RowOf(file - 1, i).peak # 0
                    /\ RowOf(file - 1, i).xcenter[1] = searched[i][1] * RowOf(file - 1, i).xcenter[2]
                    /\ RowOf(file - 1, i).ycenter[1] = searched[i][2] * RowOf(file - 1, i).ycenter[2]
                    /\ s[1] - searched[i][1] \in (0 - Offset)..Offset
                    /\ s[2] - searched[i][2] \in (0 - Offset)..Offset )
            => /\ pc = "check"
               /\ \A i \in Objects :
                     /\ phot_table[i].xcenter[1] = s[1] * phot_table[i].xcenter[2]
                     /\ phot_table[i].ycenter[1] = s[2] * phot_table[i].ycenter[2]

\* C13: after a call of find_objects_stats the window of every clamped
\* position lies inside the frame.
C13_WindowInsideFrame ==
    AfterPass =>
        \A i \in Clamped :
            /\ 0 <= Current[i][2] - Offset /\ Current[i][2] + Offset <= Height
            /\ 0 <= Current[i][1] - Offset /\ Current[i][1] + Offset <= Width

\* C14: after a call of find_objects_stats a clamped position is what the
\* first matching rule makes of the position the call was given: y = offset
\* when y - offset < 0, else y = height - offset - 1 when y + offset >= height,
\* and in both cases x as given; else x = 0 when x - offset < 0, else
\* x = width - offset - 1 when x + offset >= width; else the position as given.
C14_FirstMatchingRuleOnly ==
    AfterPass =>
        \A i \in Clamped :
            LET x == searched[i][1]
                y == searched[i][2]
            IN  /\ y - Offset < 0 => Current[i] = <<x, Offset>>
                /\ (y - Offset >= 0 /\ y + Offset >= Height) =>
                      Current[i] = <<x, Height - Offset - 1>>
                /\ (y - Offset >= 0 /\ y + Offset < Height /\ x - Offset < 0) =>
                      Current[i] = <<0, y>>
                /\ (y - Offset >= 0 /\ y + Offset < Height /\ x - Offset >= 0
                      /\ x + Offset >= Width) => Current[i] = <<Width - Offset - 1, y>>
                /\ (y - Offset >= 0 /\ y + Offset < Height /\ x - Offset >= 0
                      /\ x + Offset < Width) => Current[i] = <<x, y>>

\* a position in the top right corner had its y set to offset and kept its x
C14_Witness ==
    /\ AfterPass
    /\ searched[1] = <<Width - 1, 0>>
    /\ Current[1] = <<Width - 1, Offset>>

\* the positions int(xcenter), int(ycenter) of the rows of the f-th recorded frame
Truncated(f) ==
    [i \in Objects |->
        <<Trunc(RowOf(f, i).xcenter[1], RowOf(f, i).xcenter[2]),
          Trunc(RowOf(f, i).ycenter[1], RowOf(f, i).ycenter[2])>>]

\* C15: the first call of find_objects_stats for the first frame is given
\* round 0 of the coordinate file, and the first call for a later frame is
\* given the truncated centroids of the rows recorded for the frame before.
C15_FirstPassSeed ==
    /\ (pc = "track" /\ file = 1) => Current = View(config, 0)
    /\ (pc = "track" /\ file >= 2) => Current = Truncated(file - 1)
    /\ (passes = 1 /\ file = 1) => searched = View(config, 0)
    /\ (passes = 1 /\ file >= 2) => searched = Truncated(file - 1)

\* the first pass of the second frame was run from the centroids of a first
\* frame recorded with a negative sum, which no round of the file holds
C15_Witness ==
    /\ pc = "check" /\ passes = 1 /\ file = 2
    /\ \E i \in Objects : IsNegative(RowOf(1, i).aperture_sum)
    /\ \A r \in Rounds : searched # View(config, r)

\* the positions int(xcenter), int(ycenter) of the table of the current frame
TruncatedNow ==
    [i \in Objects |->
        <<Trunc(phot_table[i].xcenter[1], phot_table[i].xcenter[2]),
          Trunc(phot_table[i].ycenter[1], phot_table[i].ycenter[2])>>]

\* C16 as stated: the elements of `positions` change only in the update
\* step after the rows were stacked, and only when no sum of the frame is
\* negative.
C16_OnlySuccessfulUpdateWrites ==
    [][ Current' # Current => (pc = "update" /\ ~AnyNegative(phot_table)) ]_vars

\* C16, amended: the elements of `positions` are changed by the clamps of
\* find_objects_stats, by the rebinding of the view to the next round, and by
\* the update step, which sets them to the truncated centroids of the table
\* of every recorded frame, a frame with a negative sum included; opening a
\* frame, the magnitude, the stacking and the writing leave them as they are.
C16_PositionWriters ==
    [][ /\ pc = "update" => Current' = TruncatedNow
        /\ pc = "track" =>
              \A i \in Objects : Current'[i] \in {Current[i], Clamp(Current[i])}
        /\ pc = "check" =>
              \A i \in Objects :
                  Current'[i] \in {starting_positions[i][positions'],
                                   Clamp(starting_positions[i][positions'])}
        /\ pc \in {"loop", "calibrate", "record"} => Current' = Current ]_vars

\* the update step has moved the positions after a frame recorded with a
\* negative sum
C16_Witness ==
    /\ pc = "loop" /\ file >= 1
    /\ AnyNegative(phot_table)
    /\ Current = TruncatedNow
    /\ \E i \in Objects : Current[i] # Clamp(searched[i])

\* no rule of the clamp chain applies to p
Unclamped(p) ==
    /\ p[2] - Offset >= 0 /\ p[2] + Offset < Height
    /\ p[1] - Offset >= 0 /\ p[1] + Offset < Width

\* the pixels <<x, y>> of the window of p
Window(p) ==
    ((p[1] - Offset)..(p[1] + Offset - 1)) \X ((p[2] - Offset)..(p[2] + Offset - 1))

\* the sum over the pixels S of the window of p of the value (k = 0), of the
\* value times the local column (k = 1), of the value times the local row (k = 2)
RECURSIVE WindowSum(_, _, _)
WindowSum(S, p, k) ==
    IF S = {} THEN 0
    ELSE LET q == CHOOSE q \in S : TRUE
             w == IF k = 0 THEN 1
                  ELSE IF k = 1 THEN q[1] - (p[1] - Offset)
                  ELSE q[2] - (p[2] - Offset)
         IN  data[q[2]][q[1]] * w + WindowSum(S \ {q}, p, k)

\* C17: when the first pass returned, for an object whose position no rule
\* clamped and whose window has a positive sum, the centroid is
\* (x - offset + sum(v*j)/sum(v), y - offset + sum(v*i)/sum(v)); when one
\* pixel of the window is not zero, the centroid is that pixel and the peak
\* is the value of the frame there.
C17_CentroidFormula ==
    (pc = "check" /\ passes = 1) =>
        \A i \in Objects :
            LET p == searched[i]
                total == WindowSum(Window(p), p, 0)
                lit == Window(p) \cap NonZero
            IN  (Unclamped(p) /\ total > 0) =>
                    /\ phot_table[i].xcenter[1] * total =
                          ((p[1] - Offset) * total + WindowSum(Window(p), p, 1))
                              * phot_table[i].xcenter[2]
                    /\ phot_table[i].ycenter[1] * total =
                          ((p[2] - Offset) * total + WindowSum(Window(p), p, 2))
                              * phot_table[i].ycenter[2]
                    /\ \A q \in lit :
                          lit = {q} =>
                              /\ phot_table[i].xcenter[1] = q[1] * phot_table[i].xcenter[2]
                              /\ phot_table[i].ycenter[1] = q[2] * phot_table[i].ycenter[2]
                              /\ peaks[i] = data[q[2]][q[1]]

\* the first pass found the one lit pixel of a window away from the
\* position it was given
C17_Witness ==
    /\ pc = "check" /\ passes = 1
    /\ \E i \in Objects :
          /\ Unclamped(searched[i])
          /\ \E q \in Window(searched[i]) :
                /\ Window(searched[i]) \cap NonZero = {q}
                /\ data[q[2]][q[1]] > 0
                /\ q # searched[i]
                /\ peaks[i] = data[q[2]][q[1]]

\* the smaller of two numbers
Min(a, b) == IF a < b THEN a ELSE b

\* C19: the second passes of a run were run from the rounds 1, 2, ... in
\* this order, one for each of the first NumRounds - 1 frames with a negative
\* sum; a frame with a negative sum that finds the pointer at NumRounds - 1
\* or beyond has one pass only, and the pointer is advanced all the same.
C19_RetriesUseRoundsInOrder ==
    /\ retries = [k \in 1..Min(starting_positions_index, NumRounds - 1) |-> k]
    /\ passes <= 2
    /\ (pc = "calibrate" /\ FirstPassFailed) =>
          /\ starting_positions_index = index_at_open + 1
          /\ passes = IF index_at_open < NumRounds - 1 THEN 2 ELSE 1
    /\ passes = 2 => positions = index_at_open + 1 /\ positions = starting_positions_index

\* every round has been used, and a frame with a negative sum got no second
\* pass while the pointer went past the last round
C19_Witness ==
    /\ pc = "calibrate" /\ FirstPassFailed /\ passes = 1
    /\ starting_positions_index = NumRounds
    /\ Len(retries) = NumRounds - 1

\* C20: a round beyond the pointer holds the coordinates of the coordinate
\* file, and a second pass was given the coordinates of its round as the
\* file gave them.
C20_LaterRoundsUntouched ==
    /\ \A r \in Rounds :
          r > starting_positions_index =>
              \A i \in Objects : starting_positions[i][r] = config[i][r]
    /\ passes = 2 => searched = View(config, positions)

\* a second pass was run from a round as configured after round 0 had been
\* written to
C20_Witness ==
    /\ pc = "calibrate" /\ passes = 2
    /\ searched = View(config, positions)
    /\ \E i \in Objects : starting_positions[i][0] # config[i][0]
    /\ View(config, positions) # View(config, 0)

\* the lines among the first m of the file that carry the name n
Carrying(n, m) == { k \in 1..m : Len(coord_file[k]) > 0 /\ coord_file[k][1] = n }

\* the names on the first m lines of the file
NamesIn(m) == { coord_file[k][1] : k \in { j \in 1..m : Len(coord_file[j]) > 0 } }

\* the first line that carries the name n
FirstLine(n, m) == CHOOSE k \in Carrying(n, m) : \A j \in Carrying(n, m) : k <= j

\* the k-th of the first m lines that carry the name n
NthLine(n, k, m) ==
    CHOOSE l \in Carrying(n, m) : Cardinality({ j \in Carrying(n, m) : j < l }) = k - 1

\* the coordinate of line l as integers
CoordOf(l) == <<Trunc(coord_file[l][2], 10), Trunc(coord_file[l][3], 10)>>

\* C18: while the file is read and when it has been read, the objects are
\* the names of the lines read, ordered by the first line that carries them,
\* and the k-th line that carries a name is the hypothesis k - 1 of its
\* object: round r holds the (r+1)-th coordinate listed for every object.
C18_FoldedInLineOrder ==
    /\ pc \in {"parse", "loop"} =>
          /\ { names[i] : i \in 1..Len(names) } = NamesIn(line_no)
          /\ \A i \in 1..Len(names) : \A j \in 1..Len(names) :
                i < j => FirstLine(names[i], line_no) < FirstLine(names[j], line_no)
          /\ Len(starting_positions) = Len(names)
    /\ pc = "parse" =>
          \A i \in 1..Len(names) :
              /\ Len(starting_positions[i]) = Cardinality(Carrying(names[i], line_no))
              /\ \A k \in 1..Len(starting_positions[i]) :
                    starting_positions[i][k] = CoordOf(NthLine(names[i], k, line_no))
    /\ pc = "loop" =>
          \A i \in 1..Len(names) :
              /\ DOMAIN starting_positions[i] =
                    0..(Cardinality(Carrying(names[i], line_no)) - 1)
              /\ \A r \in DOMAIN starting_positions[i] :
                    starting_positions[i][r] = CoordOf(NthLine(names[i], r + 1, line_no))

\* a file that names object 2 first and lists both coordinates of each
\* object before the other object's has been folded into two rounds
C18_Witness ==
    /\ pc = "loop"
    /\ names = <<2, 1>>
    /\ Len(coord_file) = 4
    /\ coord_file[2][1] = 2
    /\ starting_positions[1][0] # starting_positions[1][1]
    /\ starting_positions[2][0] = CoordOf(3)

====
